---- MODULE Spec2Model ----
(***************************************************************************)
(* Token ledger and engagement-gating engine of FOOM: the user balance     *)
(* record, its transaction log, the processed-window markers, the unlock   *)
(* sessions and the enforcement mirror, with the services that change      *)
(* them (RewardsService, WalletService, BlockerService).                   *)
(*                                                                         *)
(* Spec      runs every public operation as one whole handler, one call    *)
(*           after another (a single client).                              *)
(* SpecConc  runs the same handlers split at their await points, two       *)
(*           callers interleaving, with Firestore's optimistic             *)
(*           transactions (read, then commit or retry).                    *)
(***************************************************************************)
EXTENDS Integers, Sequences, FiniteSets, TLC

(***************************************************************************)
(* Program constants (APP_CONFIG defaults).                                *)
(***************************************************************************)
TOKENS_PER_HOUR == 10
UNLOCK_COST_TOKENS == 20
UNLOCK_DURATION_MINUTES == 60

\* The duration taken in seconds in place of milliseconds.
unlockDurationSeconds == UNLOCK_DURATION_MINUTES * 60

unlockDurationMs == UNLOCK_DURATION_MINUTES * 60 * 1000

(***************************************************************************)
(* Bounds of the model.                                                    *)
(***************************************************************************)
\* Transaction Entries a run may append.
MaxTx == 3
\* Clock advances a run may take.
MaxTicks == 2
\* Calls a run of SpecConc may start.
MaxCalls == 3
\* Calls the user and the reconcile trigger may start in a run of
\* SpecReconcile, and clock advances the run may take.
MaxGateCalls == 4
MaxConcTicks == 1
MaxSyncTicks == 1
MaxCleanupTicks == 2
\* The background fetches of a run.
MaxFetches == 5

(***************************************************************************)
(* Inputs.                                                                 *)
(***************************************************************************)
uid == "user123"
Packages == {"com.x", "com.y"}
\* The list handed to the bulk variants (a package named twice in it).
PackageLists == {<<"com.x", "com.y", "com.x">>}
\* (startMillis, endMillis) of the reward windows submitted.
Windows == {<<0, 3600000>>, <<3600000, 7200000>>}
\* Minutes reported by the usage module (never negative) and minutes handed
\* in as manualMinutes (any number).
MeasuredMinutes == {45, 120}
ManualMinutes == {-60, 120}
\* "" stands for a missing phone number (undefined and "" are both falsy).
PhoneNumbers == {"", "0712", "254712345678"}
InvestPhones == {"", "254712345678"}
PurchaseAmounts == {0, 40}
\* The purchase that funds unlocks in SpecGate: two unlocks and a remainder
\* short of a third.
GatePurchases == {50}
WithdrawAmounts == {0, 20}
InvestAmounts == {0, 20}
UnitPrices == {0, 10}
Funds == {"cic_mmf"}
\* Clock steps: one millisecond, and one millisecond short of an unlock.
TickDeltas == {1, unlockDurationMs - 1}

(***************************************************************************)
(* State.                                                                  *)
(***************************************************************************)
VARIABLES
  user,              \* users/{uid}: the balance record
  transactions,      \* users/{uid}/transactions, in commit order
  investments,       \* users/{uid}/investments, in commit order
  processedWindows,  \* ids of the documents of processedWindows
  processedAt,       \* processedWindows/{id}.processedAt
  nativeLockedApps,  \* AppBlockService.lockedApps (the enforcement mirror)
  now,               \* Date.now()
  ticks,             \* clock advances taken
  result,            \* the call that ran last as a whole, and what it returned
  awardReturned,     \* history: window ids whose award call returned normally
  grants,            \* history: sessions paid for on a locked package
  serialBalance,     \* history: committed balance changes applied in order
  pc, req, snap, ret,\* SpecConc: each caller's position, call, reads, result
  calls,             \* SpecConc: calls started
  started            \* SpecConc, history: the balance each caller's call
                     \* started at, and the callers then in a call

vars == <<user, transactions, investments, processedWindows, processedAt,
          nativeLockedApps,
          now, ticks, result, awardReturned, grants, serialBalance,
          pc, req, snap, ret, calls, started>>

markers == <<processedWindows, processedAt>>
store == <<user, transactions, investments, markers>>
concVars == <<pc, req, snap, ret, calls, started>>

tokensBalance == user.tokensBalance
lockedApps == user.lockedApps
unlockSessions == user.unlockSessions

(***************************************************************************)
(* Helpers on arrays.                                                      *)
(***************************************************************************)
Range(s) == {s[i] : i \in 1..Len(s)}

Includes(s, x) == x \in Range(s)

\* Array.from(new Set(s)): first occurrences, in order.
RECURSIVE Dedup(_)
Dedup(s) ==
  IF s = <<>> THEN <<>>
  ELSE LET front == Dedup(SubSeq(s, 1, Len(s) - 1))
           x == s[Len(s)]
       IN IF Includes(front, x) THEN front ELSE Append(front, x)

\* s.map(x => x.packageName)
RECURSIVE PackageNames(_)
PackageNames(s) ==
  IF s = <<>> THEN <<>> ELSE <<s[1].packageName>> \o PackageNames(Tail(s))

RECURSIVE SumAmounts(_)
SumAmounts(s) == IF s = <<>> THEN 0 ELSE s[1].amount + SumAmounts(Tail(s))

(***************************************************************************)
(* Records.                                                                *)
(***************************************************************************)
\* The user document as signup writes it.
NewUser ==
  [exists |-> TRUE, tokensBalance |-> 0, lockedApps |-> <<>>,
   unlockSessions |-> <<>>, mmfPreference |-> ""]

NoWindow == <<-1, -1>>

Call(op) ==
  [op |-> op, packageName |-> "", packageNames |-> <<>>, tokenAmount |-> 0,
   unitPrice |-> 0, phoneNumber |-> "", paymentOk |-> TRUE,
   window |-> NoWindow, minutes |-> 0, manual |-> FALSE, mmfId |-> ""]

NoCall == Call("none")

\* What a call gives back: kind "return" or "throw" (op, packageName: the
\* operation called and the package it named; relocked: the packages
\* relockExpiredSessions logs as re-locked).
Result(kind) ==
  [op |-> "", packageName |-> "", kind |-> kind, success |-> FALSE,
   newBalance |-> 0,
   message |-> "", tokensAwarded |-> 0, totalMinutes |-> 0,
   investmentId |-> 0, relocked |-> <<>>]

NoResult == Result("none")

\* An entry that records the balance before its amount is applied.
EntryBefore(type, amount, balance) ==
  [uid |-> uid, type |-> type, amount |-> amount,
   balance |-> balance - amount,
   appPackage |-> "", window |-> NoWindow, minutes |-> 0,
   mmfId |-> "", phoneNumber |-> ""]

\* A Transaction Entry. The log is kept in commit order; the entry's timestamp
\* (Date.now(), which no operation reads back) is left out.
Entry(type, amount, balance) ==
  [uid |-> uid, type |-> type, amount |-> amount, balance |-> balance,
   appPackage |-> "", window |-> NoWindow, minutes |-> 0,
   mmfId |-> "", phoneNumber |-> ""]

\* What one run of a transaction's update function asks for: the value it
\* returns or the error it throws, and the writes it buffered.
TxnOut(doc) ==
  [throw |-> "", value |-> NoResult, writes |-> FALSE, doc |-> doc,
   txs |-> <<>>, invs |-> <<>>]

Throw(doc, error) == [TxnOut(doc) EXCEPT !.throw = error]

(***************************************************************************)
(* RewardsService: pure parts.                                             *)
(***************************************************************************)
\* A formula that counts a started hour as a whole one.
calculateTokensRoundedUp(totalMinutes) ==
  ((totalMinutes + 59) \div 60) * TOKENS_PER_HOUR

\* Math.floor(totalMinutes / 60) * TOKENS_PER_HOUR (\div floors, as floor does)
calculateTokens(totalMinutes) == (totalMinutes \div 60) * TOKENS_PER_HOUR

\* `${uid}_${startMillis}_${endMillis}`
generateWindowId(u, startMillis, endMillis) ==
  u \o "_" \o ToString(startMillis) \o "_" \o ToString(endMillis)

isWindowProcessed(windowId) == windowId \in processedWindows

\* What isWindowProcessed resolves to: doc.exists, or false from its catch
\* when the lookup throws (lookupOk is whether the lookup goes through).
alreadyProcessed(windowId, lookupOk) ==
  IF lookupOk THEN isWindowProcessed(windowId) ELSE FALSE

\* A marker write that is left out.
skipMarkWindowProcessed(windowId) == UNCHANGED markers

markWindowProcessed(windowId) ==
  /\ processedWindows' = processedWindows \cup {windowId}
  /\ processedAt' = [id \in processedWindows' |->
                       IF id = windowId THEN now ELSE processedAt[id]]

(***************************************************************************)
(* The update functions handed to runTransaction: what one run of each     *)
(* reads from the user document `doc` at time t and what it buffers.       *)
(***************************************************************************)
awardUpdate(doc, tokensAwarded, totalMinutes, window) ==
  IF ~doc.exists THEN Throw(doc, "User not found")
  ELSE LET currentBalance == doc.tokensBalance
           newBalance == currentBalance + tokensAwarded
       IN [TxnOut(doc) EXCEPT
             !.writes = TRUE,
             !.doc = [doc EXCEPT !.tokensBalance = newBalance],
             !.txs = <<[Entry("reward", tokensAwarded, newBalance) EXCEPT
                          !.minutes = totalMinutes, !.window = window]>>]

\* A purchase that writes the balance with set-and-merge, which creates the
\* user document when there is none.
purchaseCreatesUser(doc, tokenAmount, phoneNumber) ==
  LET newBalance == doc.tokensBalance + tokenAmount
  IN [TxnOut(doc) EXCEPT
        !.writes = TRUE,
        !.value = [Result("return") EXCEPT !.newBalance = newBalance],
        !.doc = [doc EXCEPT !.exists = TRUE, !.tokensBalance = newBalance],
        !.txs = <<[Entry("purchase", tokenAmount, newBalance) EXCEPT
                     !.phoneNumber = phoneNumber]>>]

purchaseUpdate(doc, tokenAmount, phoneNumber) ==
  IF ~doc.exists THEN Throw(doc, "User not found")
  ELSE LET currentBalance == doc.tokensBalance
           newBalance == currentBalance + tokenAmount
       IN [TxnOut(doc) EXCEPT
             !.writes = TRUE,
             !.value = [Result("return") EXCEPT !.newBalance = newBalance],
             !.doc = [doc EXCEPT !.tokensBalance = newBalance],
             !.txs = <<[Entry("purchase", tokenAmount, newBalance) EXCEPT
                          !.phoneNumber = phoneNumber]>>]

\* An investment whose units are the tokens times the price.
investUnitsMultiplied(doc, mmfId, tokenAmount, unitPrice, phoneNumber, id) ==
  IF ~doc.exists THEN Throw(doc, "User not found")
  ELSE LET currentBalance == doc.tokensBalance IN
       IF phoneNumber = "" /\ currentBalance < tokenAmount
       THEN Throw(doc, "Insufficient token balance")
       ELSE LET newBalance == IF phoneNumber # "" THEN currentBalance
                              ELSE currentBalance - tokenAmount
            IN [TxnOut(doc) EXCEPT
                  !.writes = TRUE,
                  !.value = [Result("return") EXCEPT !.investmentId = id],
                  !.doc = [doc EXCEPT !.tokensBalance = newBalance,
                                      !.mmfPreference = mmfId],
                  !.invs = <<[uid |-> uid, mmfId |-> mmfId,
                              amount |-> tokenAmount,
                              units |-> <<tokenAmount * unitPrice, 1>>]>>,
                  !.txs = <<[Entry("investment",
                                   IF phoneNumber # "" THEN tokenAmount
                                   ELSE -tokenAmount,
                                   newBalance) EXCEPT
                               !.mmfId = mmfId,
                               !.phoneNumber = phoneNumber]>>]

\* units = tokenAmount / unitPrice is kept as the exact fraction.
investUpdate(doc, mmfId, tokenAmount, unitPrice, phoneNumber, id) ==
  IF ~doc.exists THEN Throw(doc, "User not found")
  ELSE LET currentBalance == doc.tokensBalance IN
       IF phoneNumber = "" /\ currentBalance < tokenAmount
       THEN Throw(doc, "Insufficient token balance")
       ELSE LET newBalance == IF phoneNumber # "" THEN currentBalance
                              ELSE currentBalance - tokenAmount
            IN [TxnOut(doc) EXCEPT
                  !.writes = TRUE,
                  !.value = [Result("return") EXCEPT !.investmentId = id],
                  !.doc = [doc EXCEPT !.tokensBalance = newBalance,
                                      !.mmfPreference = mmfId],
                  !.invs = <<[uid |-> uid, mmfId |-> mmfId,
                              amount |-> tokenAmount,
                              units |-> <<tokenAmount, unitPrice>>]>>,
                  !.txs = <<[Entry("investment",
                                   IF phoneNumber # "" THEN tokenAmount
                                   ELSE -tokenAmount,
                                   newBalance) EXCEPT
                               !.mmfId = mmfId,
                               !.phoneNumber = phoneNumber]>>]

\* A withdrawal that pays out what is there when the balance falls short.
withdrawWhatIsThere(doc, amount, phoneNumber) ==
  IF ~doc.exists THEN Throw(doc, "User not found")
  ELSE LET currentBalance == doc.tokensBalance
           paid == IF currentBalance < amount THEN currentBalance ELSE amount
           newBalance == currentBalance - paid
       IN [TxnOut(doc) EXCEPT
             !.writes = TRUE,
             !.value = [Result("return") EXCEPT !.newBalance = newBalance],
             !.doc = [doc EXCEPT !.tokensBalance = newBalance],
             !.txs = <<[Entry("withdrawal", -paid, newBalance) EXCEPT
                          !.phoneNumber = phoneNumber]>>]

\* A withdrawal that also drops the fund preference and the sessions.
withdrawResetsRecord(doc, amount, phoneNumber) ==
  IF ~doc.exists THEN Throw(doc, "User not found")
  ELSE LET currentBalance == doc.tokensBalance IN
       IF currentBalance < amount THEN Throw(doc, "Insufficient balance")
       ELSE LET newBalance == currentBalance - amount
            IN [TxnOut(doc) EXCEPT
                  !.writes = TRUE,
                  !.value = [Result("return") EXCEPT !.newBalance = newBalance],
                  !.doc = [doc EXCEPT !.tokensBalance = newBalance,
                                      !.mmfPreference = "",
                                      !.unlockSessions = <<>>],
                  !.txs = <<[Entry("withdrawal", -amount, newBalance) EXCEPT
                               !.phoneNumber = phoneNumber]>>]
withdrawUpdate(doc, amount, phoneNumber) ==
  IF ~doc.exists THEN Throw(doc, "User not found")
  ELSE LET currentBalance == doc.tokensBalance IN
       IF currentBalance < amount THEN Throw(doc, "Insufficient balance")
       ELSE LET newBalance == currentBalance - amount
            IN [TxnOut(doc) EXCEPT
                  !.writes = TRUE,
                  !.value = [Result("return") EXCEPT !.newBalance = newBalance],
                  !.doc = [doc EXCEPT !.tokensBalance = newBalance],
                  !.txs = <<[Entry("withdrawal", -amount, newBalance) EXCEPT
                               !.phoneNumber = phoneNumber]>>]

\* A filter that keeps every session.
KeepSessions(sessions, t) == sessions

\* unlockSessions.filter(s => s.expiresAt > now)
ActiveSessions(sessions, t) == SelectSeq(sessions, LAMBDA s : s.expiresAt > t)

\* Expiry taken strictly: a session is not expired at its expiresAt.
StrictlyExpiredSessions(sessions, t) ==
  SelectSeq(sessions, LAMBDA s : s.expiresAt < t)

\* unlockSessions.filter(s => s.expiresAt <= now)
ExpiredSessions(sessions, t) == SelectSeq(sessions, LAMBDA s : s.expiresAt <= t)

\* lockedApps.filter(pkg => pkg !== packageName)
Without(apps, packageName) == SelectSeq(apps, LAMBDA pkg : pkg # packageName)

\* A balance check that lets every unlock through.
neverInsufficient(currentBalance, unlockCost) == FALSE

\* currentBalance < unlockCost
insufficientTokens(currentBalance, unlockCost) == currentBalance < unlockCost

unlockUpdate(doc, packageName, t) ==
  IF ~doc.exists THEN Throw(doc, "User not found")
  ELSE LET unlockCost == UNLOCK_COST_TOKENS
           currentBalance == doc.tokensBalance IN
       IF insufficientTokens(currentBalance, unlockCost)
       THEN [TxnOut(doc) EXCEPT
               !.value = [Result("return") EXCEPT
                            !.newBalance = currentBalance,
                            !.message = "Insufficient tokens"]]
       ELSE LET newBalance == currentBalance - unlockCost
                expiresAt == t + unlockDurationMs
                updatedLockedApps == Without(doc.lockedApps, packageName)
                newSession == [packageName |-> packageName, unlockedAt |-> t,
                               expiresAt |-> expiresAt]
                activeSessions ==
                  Append(ActiveSessions(doc.unlockSessions, t), newSession)
            IN [TxnOut(doc) EXCEPT
                  !.writes = TRUE,
                  !.value = [Result("return") EXCEPT
                               !.success = TRUE, !.newBalance = newBalance,
                               !.message = "unlocked"],
                  !.doc = [doc EXCEPT !.tokensBalance = newBalance,
                                      !.lockedApps = updatedLockedApps,
                                      !.unlockSessions = activeSessions],
                  !.txs = <<[Entry("unlock", -unlockCost, newBalance) EXCEPT
                               !.appPackage = packageName]>>]

lockUpdate(doc, packageName) ==
  IF ~doc.exists THEN Throw(doc, "User not found")
  ELSE IF Includes(doc.lockedApps, packageName) THEN TxnOut(doc)
  ELSE [TxnOut(doc) EXCEPT
          !.writes = TRUE,
          !.doc = [doc EXCEPT !.lockedApps = Append(@, packageName)]]

unlockPermanentlyUpdate(doc, packageName) ==
  IF ~doc.exists THEN Throw(doc, "User not found")
  ELSE [TxnOut(doc) EXCEPT
          !.writes = TRUE,
          !.doc = [doc EXCEPT !.lockedApps = Without(@, packageName)]]

\* A bulk lock that appends the names as they come.
lockMultipleAppends(doc, packageNames) ==
  IF ~doc.exists THEN Throw(doc, "User not found")
  ELSE [TxnOut(doc) EXCEPT
          !.writes = TRUE,
          !.doc = [doc EXCEPT !.lockedApps = @ \o packageNames]]

\* Array.from(new Set([...existingLockedApps, ...packageNames]))
lockMultipleUpdate(doc, packageNames) ==
  IF ~doc.exists THEN Throw(doc, "User not found")
  ELSE [TxnOut(doc) EXCEPT
          !.writes = TRUE,
          !.doc = [doc EXCEPT !.lockedApps = Dedup(@ \o packageNames)]]

\* lockedApps.filter(pkg => !packageNames.includes(pkg))
unlockMultiplePermanentlyUpdate(doc, packageNames) ==
  IF ~doc.exists THEN Throw(doc, "User not found")
  ELSE [TxnOut(doc) EXCEPT
          !.writes = TRUE,
          !.doc = [doc EXCEPT
                     !.lockedApps =
                        SelectSeq(@, LAMBDA pkg : ~Includes(packageNames, pkg))]]

\* The update function of call c, run on doc at time t.
Update(c, doc, t, id) ==
  CASE c.op = "awardTokensForWindow" ->
         awardUpdate(doc, calculateTokens(c.minutes), c.minutes, c.window)
    [] c.op = "purchaseTokens" ->
         purchaseUpdate(doc, c.tokenAmount, c.phoneNumber)
    [] c.op = "investInMMF" ->
         investUpdate(doc, c.mmfId, c.tokenAmount, c.unitPrice, c.phoneNumber,
                      id)
    [] c.op = "withdrawTokens" ->
         withdrawUpdate(doc, c.tokenAmount, c.phoneNumber)
    [] c.op = "unlockApp" -> unlockUpdate(doc, c.packageName, t)
    [] c.op = "lockApp" -> lockUpdate(doc, c.packageName)
    [] c.op = "unlockAppPermanently" ->
         unlockPermanentlyUpdate(doc, c.packageName)
    [] c.op = "lockMultipleApps" -> lockMultipleUpdate(doc, c.packageNames)
    [] c.op = "unlockMultipleAppsPermanently" ->
         unlockMultiplePermanentlyUpdate(doc, c.packageNames)

(***************************************************************************)
(* The handlers around the transaction: what a call returns before it      *)
(* opens one (NoResult: it goes on), and what it returns after.            *)
(***************************************************************************)
Failure(message) == [Result("return") EXCEPT !.message = message]

\* Call c returned (or threw) r.
Returned(c, r) == [r EXCEPT !.op = c.op, !.packageName = c.packageName]

InvalidPhone(phoneNumber) == phoneNumber = "" \/ Len(phoneNumber) < 10

\* Before(c) with the payment consulted ahead of the input validation.
BeforeChargesFirst(c) ==
  IF c.op = "investInMMF" /\ c.phoneNumber # "" /\ ~c.paymentOk
  THEN Failure("Payment failed")
  ELSE IF c.op = "investInMMF"
       THEN IF c.tokenAmount <= 0
            THEN Failure("Investment amount must be greater than 0")
            ELSE IF c.unitPrice <= 0 THEN Failure("Invalid unit price")
            ELSE NoResult
  ELSE IF c.op = "purchaseTokens"
       THEN IF InvalidPhone(c.phoneNumber) THEN Failure("Invalid phone number")
            ELSE IF c.tokenAmount <= 0
                 THEN Failure("Amount must be greater than 0")
            ELSE IF ~c.paymentOk THEN Failure("Payment failed")
            ELSE NoResult
  ELSE IF c.op = "withdrawTokens"
       THEN IF c.tokenAmount <= 0
            THEN Failure("Withdrawal amount must be greater than 0")
            ELSE IF InvalidPhone(c.phoneNumber)
                 THEN Failure("Invalid phone number")
            ELSE NoResult
  ELSE NoResult
Before(c) ==
  CASE c.op = "purchaseTokens" ->
         IF InvalidPhone(c.phoneNumber) THEN Failure("Invalid phone number")
         ELSE IF c.tokenAmount <= 0
              THEN Failure("Amount must be greater than 0")
         ELSE IF ~c.paymentOk THEN Failure("Payment failed")
         ELSE NoResult
    [] c.op = "investInMMF" ->
         IF c.tokenAmount <= 0
         THEN Failure("Investment amount must be greater than 0")
         ELSE IF c.unitPrice <= 0 THEN Failure("Invalid unit price")
         ELSE IF c.phoneNumber # "" /\ ~c.paymentOk
              THEN Failure("Payment failed")
         ELSE NoResult
    [] c.op = "withdrawTokens" ->
         IF c.tokenAmount <= 0
         THEN Failure("Withdrawal amount must be greater than 0")
         ELSE IF InvalidPhone(c.phoneNumber)
              THEN Failure("Invalid phone number")
         ELSE NoResult
    [] OTHER -> NoResult

\* The result of call c whose transaction ended as `out` (committed, or
\* thrown out of).
After(c, out) ==
  CASE c.op = "purchaseTokens" ->
         IF out.throw # "" THEN Failure("Failed to purchase tokens")
         ELSE [out.value EXCEPT !.success = TRUE, !.message = "purchased"]
    [] c.op = "investInMMF" ->
         IF out.throw # "" THEN Failure(out.throw)
         ELSE [out.value EXCEPT !.success = TRUE, !.message = "invested"]
    [] c.op = "withdrawTokens" ->
         IF out.throw # "" THEN Failure(out.throw)
         ELSE [out.value EXCEPT !.success = TRUE, !.message = "withdrew"]
    [] c.op = "unlockApp" ->
         IF out.throw # "" THEN Failure("Failed to unlock app")
         ELSE out.value
    [] c.op = "awardTokensForWindow" ->
         IF out.throw # "" THEN [Result("throw") EXCEPT !.message = out.throw]
         ELSE [Result("return") EXCEPT
                 !.tokensAwarded = calculateTokens(c.minutes),
                 !.totalMinutes = c.minutes]
    [] OTHER ->
         IF out.throw # "" THEN [Result("throw") EXCEPT !.message = out.throw]
         ELSE Result("return")

(***************************************************************************)
(* Effects shared by both specifications.                                  *)
(***************************************************************************)
\* A commit that lands the document write and loses the entries.
CommitBalanceOnly(read, out) ==
  /\ user' = out.doc
  /\ investments' = investments \o out.invs
  /\ serialBalance' =
       serialBalance + (out.doc.tokensBalance - read.tokensBalance)
  /\ UNCHANGED transactions

\* A transaction commits: its buffered writes land together.
\* A commit that lands the entry and the document write and loses the
\* position.
CommitWithoutPosition(read, out) ==
  /\ user' = out.doc
  /\ transactions' = transactions \o out.txs
  /\ UNCHANGED investments
  /\ serialBalance' =
       serialBalance + (out.doc.tokensBalance - read.tokensBalance)
Commit(read, out) ==
  /\ user' = out.doc
  /\ transactions' = transactions \o out.txs
  /\ investments' = investments \o out.invs
  /\ serialBalance' =
       serialBalance + (out.doc.tokensBalance - read.tokensBalance)

NoCommit == UNCHANGED <<user, transactions, investments, serialBalance>>

\* The transaction whose update function ended as `out` on the document
\* `read`: it commits what was buffered, or (thrown out of, or nothing
\* buffered) writes nothing.
Settle(read, out) ==
  IF out.throw = "" /\ out.writes THEN Commit(read, out) ELSE NoCommit

\* A store that takes back what a call committed when its push is rejected.
RollBackUnpushed(read, out, rejected) ==
  IF out.throw = "" /\ out.writes /\ ~rejected THEN Commit(read, out)
  ELSE NoCommit

\* The store after the transaction and the push that may follow it: the
\* catch blocks report a rejected push and undo nothing.
SettlePushed(read, out, rejected) == Settle(read, out)

\* What call c returns when its push is rejected: unlockApp's catch turns
\* the error into a failure, the other handlers rethrow it.
PushRejected(c) ==
  IF c.op = "unlockApp" THEN Failure("Failed to unlock app")
  ELSE [Result("throw") EXCEPT !.message = "updateLockedApps rejected"]

\* History: a paid session on a package that was locked is owed a re-lock,
\* until the package is unlocked permanently.
GrantsAfter(c, read, out) ==
  IF out.throw # "" \/ ~out.writes THEN grants
  ELSE IF c.op = "unlockApp" /\ Includes(read.lockedApps, c.packageName)
  THEN grants \cup
         {[packageName |-> c.packageName,
           expiresAt |-> out.doc.unlockSessions[Len(out.doc.unlockSessions)]
                           .expiresAt]}
  ELSE IF c.op = "unlockAppPermanently"
  THEN {g \in grants : g.packageName # c.packageName}
  ELSE IF c.op = "unlockMultipleAppsPermanently"
  THEN {g \in grants : ~Includes(c.packageNames, g.packageName)}
  ELSE grants

\* Whether call c, its transaction ended as `out`, goes on to read
\* lockedApps again and push it to the native module.
Pushes(c, out) ==
  /\ out.throw = ""
  /\ \/ c.op = "unlockApp" /\ out.value.success
     \/ c.op \in {"lockApp", "unlockAppPermanently", "lockMultipleApps",
                 "unlockMultipleAppsPermanently"}

\* What relockExpiredSessions writes, from the document it read at time t.
relockUpdate(doc, t) ==
  LET expiredSessions == ExpiredSessions(doc.unlockSessions, t)
      activeSessions == ActiveSessions(doc.unlockSessions, t)
      expiredPackages == PackageNames(expiredSessions)
      updatedLockedApps == Dedup(doc.lockedApps \o expiredPackages)
  IN [writes |-> doc.exists /\ expiredSessions # <<>>,
      lockedApps |-> updatedLockedApps,
      unlockSessions |-> activeSessions,
      expiredPackages |-> expiredPackages]

(***************************************************************************)
(* Spec: each public operation as one whole handler.                       *)
(***************************************************************************)
\* The bound on the log: a call runs only while what it appends still fits.
Room(out) == Len(transactions) + Len(out.txs) <= MaxTx

\* purchaseTokens, investInMMF, withdrawTokens, unlockApp, lockApp and
\* unlockAppPermanently: validation, payment, the transaction, the push.
\* pushOk: whether BlockerModule.updateLockedApps resolves, if the call
\* comes to push (it rejects when the native module throws).
\* A handler that opens the transaction before it waits for the payment:
\* what the update function throws on the document it read wins over the
\* payment's answer.
RunOpensFirst(c, pushOk) ==
  /\ \E out \in {Update(c, user, now, Len(investments) + 1)} :
       IF out.throw = "" /\ Before(c).kind # "none"
       THEN /\ result' = Returned(c, Before(c))
            /\ NoCommit
            /\ UNCHANGED <<grants, nativeLockedApps>>
       ELSE LET pushed == Pushes(c, out) /\ pushOk
                rejected == Pushes(c, out) /\ ~pushOk
            IN /\ Room(out)
               /\ SettlePushed(user, out, rejected)
               /\ result' = Returned(c, IF rejected THEN PushRejected(c)
                                        ELSE After(c, out))
               /\ grants' = GrantsAfter(c, user, out)
               /\ nativeLockedApps' =
                    IF pushed THEN Range(out.doc.lockedApps)
                    ELSE nativeLockedApps
  /\ UNCHANGED <<markers, now, ticks, awardReturned, concVars>>
Run(c, pushOk) ==
  /\ LET early == Before(c) IN
     IF early.kind # "none"
     THEN /\ result' = Returned(c, early)
          /\ NoCommit
          /\ UNCHANGED <<grants, nativeLockedApps>>
     ELSE \E out \in {Update(c, user, now, Len(investments) + 1)} :
          LET pushed == Pushes(c, out) /\ pushOk
              rejected == Pushes(c, out) /\ ~pushOk
          IN /\ Room(out)
             /\ SettlePushed(user, out, rejected)
             /\ result' = Returned(c, IF rejected THEN PushRejected(c)
                                      ELSE After(c, out))
             /\ grants' = GrantsAfter(c, user, out)
             /\ nativeLockedApps' =
                  IF pushed THEN Range(out.doc.lockedApps)
                  ELSE nativeLockedApps
  /\ UNCHANGED <<markers, now, ticks, awardReturned, concVars>>

\* The call with a native module that takes the push.
Handle(c) == Run(c, TRUE)

purchaseTokens(tokenAmount, phoneNumber, paymentOk) ==
  Handle([Call("purchaseTokens") EXCEPT
               !.tokenAmount = tokenAmount, !.phoneNumber = phoneNumber,
               !.paymentOk = paymentOk])

investInMMF(mmfId, tokenAmount, unitPrice, phoneNumber, paymentOk) ==
  Handle([Call("investInMMF") EXCEPT
               !.mmfId = mmfId, !.tokenAmount = tokenAmount,
               !.unitPrice = unitPrice, !.phoneNumber = phoneNumber,
               !.paymentOk = paymentOk])

withdrawTokens(amount, phoneNumber) ==
  Handle([Call("withdrawTokens") EXCEPT
               !.tokenAmount = amount, !.phoneNumber = phoneNumber])

unlockApp(packageName) ==
  Handle([Call("unlockApp") EXCEPT !.packageName = packageName])

lockApp(packageName) ==
  Handle([Call("lockApp") EXCEPT !.packageName = packageName])

unlockAppPermanently(packageName) ==
  Handle([Call("unlockAppPermanently") EXCEPT !.packageName = packageName])

lockMultipleApps(packageNames) ==
  Handle([Call("lockMultipleApps") EXCEPT !.packageNames = packageNames])

unlockMultipleAppsPermanently(packageNames) ==
  Handle([Call("unlockMultipleAppsPermanently") EXCEPT
            !.packageNames = packageNames])

AwardCall(window, minutes, manual) ==
  [Call("awardTokensForWindow") EXCEPT
     !.window = window, !.minutes = minutes, !.manual = manual]

\* awardTokensForWindow, its marker lookup going through (lookupOk) or
\* throwing.
award(window, minutes, manual, lookupOk) ==
  \E windowId \in {generateWindowId(uid, window[1], window[2])} :
  LET c == AwardCall(window, minutes, manual)
      tokensAwarded == calculateTokens(minutes)
  IN /\ IF alreadyProcessed(windowId, lookupOk)
        THEN /\ result' = Returned(c, Result("return"))
             /\ NoCommit
             /\ UNCHANGED markers
        ELSE IF tokensAwarded = 0
        THEN /\ result' = Returned(c, [Result("return") EXCEPT
                                         !.totalMinutes = minutes])
             /\ NoCommit
             /\ markWindowProcessed(windowId)
        ELSE \E out \in {Update(c, user, now, 0)} :
             /\ Room(out)
             /\ result' = Returned(c, After(c, out))
             /\ Settle(user, out)
             /\ IF out.throw = "" THEN markWindowProcessed(windowId)
                ELSE UNCHANGED markers
     /\ awardReturned' =
          IF result'.kind = "return" THEN awardReturned \cup {windowId}
          ELSE awardReturned
     /\ UNCHANGED <<nativeLockedApps, now, ticks, grants, concVars>>

\* The call with a marker store that answers the lookup.
awardTokensForWindow(window, minutes, manual) ==
  award(window, minutes, manual, TRUE)

\* relockExpiredSessions with a store that takes userRef.update (writeOk)
\* or rejects it, and a native module that takes the push (pushOk) or
\* rejects it: the catch swallows either error and the call returns.
reconcile(writeOk, pushOk) ==
  \E w \in {relockUpdate(user, now)} :
  /\ result' = Returned(Call("relockExpiredSessions"),
                        [Result("return") EXCEPT
                           !.relocked = IF w.writes /\ writeOk
                                        THEN w.expiredPackages ELSE <<>>])
  /\ IF w.writes /\ writeOk
     THEN /\ user' = [user EXCEPT !.lockedApps = w.lockedApps,
                                  !.unlockSessions = w.unlockSessions]
          /\ nativeLockedApps' = IF pushOk THEN Range(w.lockedApps)
                                 ELSE nativeLockedApps
     ELSE UNCHANGED <<user, nativeLockedApps>>
  /\ UNCHANGED <<transactions, investments, markers, now, ticks,
                 awardReturned, grants, serialBalance, concVars>>

relockExpiredSessions == reconcile(TRUE, TRUE)

\* Time passes (at most `limit` times in a run).
Pass(d, limit) ==
  /\ ticks < limit
  /\ now' = now + d
  /\ ticks' = ticks + 1
  /\ UNCHANGED <<store, nativeLockedApps, result, awardReturned, grants,
                 serialBalance, concVars>>

Tick(d) == Pass(d, MaxTicks)

Procs == {1, 2}

NoSnap == [doc |-> NewUser, at |-> 0, stale |-> FALSE]

\* Ghost, kept of unlockApp calls: the balance when the call started, the
\* callers then under way, and whether only unlocks have changed the
\* balance since.
NotStarted == [balance |-> 0, with |-> {}, alone |-> TRUE]

Init ==
  /\ user \in {NewUser, [NewUser EXCEPT !.exists = FALSE]}
  /\ transactions = <<>>
  /\ investments = <<>>
  /\ processedWindows = {}
  /\ processedAt = [id \in {} |-> 0]
  /\ nativeLockedApps = {}
  /\ now = 0
  /\ ticks = 0
  /\ result = NoResult
  /\ awardReturned = {}
  /\ grants = {}
  /\ serialBalance = 0
  /\ pc = [p \in Procs |-> "idle"]
  /\ req = [p \in Procs |-> NoCall]
  /\ snap = [p \in Procs |-> NoSnap]
  /\ ret = [p \in Procs |-> NoResult]
  /\ calls = 0
  /\ started = [p \in Procs |-> NotStarted]

(***************************************************************************)
(* Spec: the ledger. Every operation that reads or writes tokensBalance,   *)
(* the transaction log, the investment positions or the window markers.    *)
(***************************************************************************)
Next ==
  \/ \E w \in Windows, m \in MeasuredMinutes : awardTokensForWindow(w, m, FALSE)
  \/ \E w \in Windows, m \in ManualMinutes : awardTokensForWindow(w, m, TRUE)
  \/ \E a \in PurchaseAmounts, ph \in PhoneNumbers, ok \in BOOLEAN :
       purchaseTokens(a, ph, ok)
  \/ \E f \in Funds, a \in InvestAmounts, u \in UnitPrices,
        ph \in InvestPhones, ok \in BOOLEAN : investInMMF(f, a, u, ph, ok)
  \/ \E a \in WithdrawAmounts, ph \in PhoneNumbers : withdrawTokens(a, ph)
  \/ \E pkg \in Packages : unlockApp(pkg)

Spec == Init /\ [][Next]_vars

(***************************************************************************)
(* SpecGate: the unlock session manager. Every operation that reads or     *)
(* writes lockedApps or unlockSessions, with purchases to fund the         *)
(* unlocks and the clock to expire them.                                   *)
(***************************************************************************)
NextGate ==
  \/ \E d \in TickDeltas : Tick(d)
  \/ \E a \in GatePurchases : purchaseTokens(a, "254712345678", TRUE)
  \/ \E pkg \in Packages : unlockApp(pkg)
  \/ \E pkg \in Packages : lockApp(pkg)
  \/ \E pkg \in Packages : unlockAppPermanently(pkg)
  \/ \E pkgs \in PackageLists : lockMultipleApps(pkgs)
  \/ \E pkgs \in PackageLists : unlockMultipleAppsPermanently(pkgs)
  \/ relockExpiredSessions

SpecGate == Init /\ [][NextGate]_vars

(***************************************************************************)
(* SpecConc: two callers of the ledger operations, each handler split at    *)
(* its await points.                                                       *)
(*                                                                         *)
(* runTransaction is Firestore's optimistic transaction: the update        *)
(* function reads the document, and the commit goes through only if the    *)
(* document has not been written since; otherwise the update function      *)
(* runs again on a fresh read. (The SDK gives up after five attempts;      *)
(* MaxCalls keeps a call from ever conflicting that often.)                *)
(*   pc: idle -> get -> commit -> (mark | reread -> push) -> idle          *)
(*       idle -> read -> write -> push -> idle    (relockExpiredSessions,  *)
(*                                                 in SpecReconcile)       *)
(***************************************************************************)
\* The calls the callers choose from.
ConcCalls ==
  {AwardCall(<<0, 3600000>>, 120, FALSE)}
  \cup {[Call("purchaseTokens") EXCEPT
           !.tokenAmount = 40, !.phoneNumber = "254712345678"]}
  \cup {[Call("withdrawTokens") EXCEPT
           !.tokenAmount = 20, !.phoneNumber = "254712345678"]}
  \cup {[Call("investInMMF") EXCEPT
           !.mmfId = f, !.tokenAmount = 20, !.unitPrice = 10,
           !.phoneNumber = ph] : f \in Funds, ph \in InvestPhones}
  \cup {[Call("unlockApp") EXCEPT !.packageName = pkg] : pkg \in Packages}

\* A commit that does not verify what the transaction read.
NoConflict(p) == FALSE

\* Whether the document a transaction read has been written since.
Conflict(p) == snap[p].stale

\* A write that leaves the other callers' open reads as they are.
NoOutdate(p, written) == snap

\* A write to the user document outdates what the other callers' open
\* transactions have read.
Outdate(p, written) ==
  [q \in Procs |->
     IF written /\ q # p /\ pc[q] = "commit"
     THEN [snap[q] EXCEPT !.stale = TRUE] ELSE snap[q]]

\* Ghost: a commit that changes the balance and is not an unlock's tells
\* the unlocks under way that they are not among unlocks only.
Disturb(p, c, read, out) ==
  [q \in Procs |->
     IF /\ q # p /\ pc[q] # "idle"
        /\ c.op # "unlockApp"
        /\ out.writes /\ out.doc.tokensBalance # read.tokensBalance
     THEN [started[q] EXCEPT !.alone = FALSE] ELSE started[q]]

\* ret[p] is the result p's call has in hand; the call has returned (or
\* thrown) it once pc[p] is back to "idle".
Holds(p, r) == ret' = [ret EXCEPT ![p] = Returned(req[p], r)]

\* The call of p is over: its locals are gone.
Return(p) == pc' = [pc EXCEPT ![p] = "idle"]

Forget(p, snaps) == [snaps EXCEPT ![p] = NoSnap]

\* Where the call of p goes once its transaction has committed as `out`.
AfterCommit(c, out) ==
  IF c.op = "awardTokensForWindow" THEN "mark"
  ELSE IF Pushes(c, out) THEN "reread"
  ELSE "idle"

\* The update function of p's call, as run on what p read.
Out(p) == Update(req[p], snap[p].doc, snap[p].at, Len(investments) + 1)

\* A call starts: validation and the payment wait; awardTokensForWindow
\* looks its window up and computes the award.
Start(p, c, limit) ==
  LET early == Before(c)
      windowId == generateWindowId(uid, c.window[1], c.window[2])
  IN /\ pc[p] = "idle"
     /\ calls < limit
     /\ calls' = calls + 1
     /\ req' = [req EXCEPT ![p] = c]
     /\ started' =
          [q \in Procs |->
             IF q = p
             THEN IF c.op = "unlockApp"
                  THEN [balance |-> user.tokensBalance,
                        with |-> {r \in Procs \ {p} : pc[r] # "idle"},
                        alone |-> TRUE]
                  ELSE NotStarted
             ELSE [started[q] EXCEPT !.with = @ \ {p}]]
     /\ IF early.kind # "none"
        THEN /\ ret' = [ret EXCEPT ![p] = Returned(c, early)]
             /\ UNCHANGED pc
        ELSE IF c.op = "awardTokensForWindow" /\ isWindowProcessed(windowId)
        THEN /\ ret' = [ret EXCEPT ![p] = Returned(c, Result("return"))]
             /\ UNCHANGED pc
        ELSE IF c.op = "awardTokensForWindow"
                /\ calculateTokens(c.minutes) = 0
        THEN /\ ret' = [ret EXCEPT ![p] =
                         Returned(c, [Result("return") EXCEPT
                                        !.totalMinutes = c.minutes])]
             /\ pc' = [pc EXCEPT ![p] = "mark"]
        ELSE /\ ret' = [ret EXCEPT ![p] = NoResult]
             /\ pc' = [pc EXCEPT ![p] =
                         IF c.op = "relockExpiredSessions" THEN "read"
                         ELSE "get"]
     /\ UNCHANGED <<store, nativeLockedApps, now, ticks, result, awardReturned,
                    grants, serialBalance, snap>>

Invoke(p, c) == Start(p, c, MaxCalls)

\* A handler that writes the marker also when its transaction has thrown.
TxnGetMarksAnyway(p) ==
  LET read == [doc |-> user, at |-> now, stale |-> FALSE]
      out == Update(req[p], user, now, Len(investments) + 1)
  IN /\ pc[p] = "get"
     /\ IF out.throw # ""
        THEN /\ Holds(p, After(req[p], out))
             /\ pc' = [pc EXCEPT ![p] =
                         IF req[p].op = "awardTokensForWindow" THEN "mark"
                         ELSE "idle"]
             /\ snap' = Forget(p, snap)
        ELSE /\ pc' = [pc EXCEPT ![p] = "commit"]
             /\ snap' = [snap EXCEPT ![p] = read]
             /\ UNCHANGED ret
     /\ UNCHANGED <<store, nativeLockedApps, now, ticks, result, awardReturned,
                    grants, serialBalance, req, calls, started>>

\* transaction.get(userRef) and the update function on what it read; an
\* error thrown by the update function ends the transaction and the call.
TxnGet(p) ==
  LET read == [doc |-> user, at |-> now, stale |-> FALSE]
      out == Update(req[p], user, now, Len(investments) + 1)
  IN /\ pc[p] = "get"
     /\ IF out.throw # ""
        THEN /\ Holds(p, After(req[p], out)) /\ Return(p)
             /\ snap' = Forget(p, snap)
        ELSE /\ pc' = [pc EXCEPT ![p] = "commit"]
             /\ snap' = [snap EXCEPT ![p] = read]
             /\ UNCHANGED ret
     /\ UNCHANGED <<store, nativeLockedApps, now, ticks, result, awardReturned,
                    grants, serialBalance, req, calls, started>>

\* The commit finds the document written since the read: run again.
TxnRetry(p) ==
  /\ pc[p] = "commit"
  /\ Conflict(p)
  /\ pc' = [pc EXCEPT ![p] = "get"]
  /\ UNCHANGED <<store, nativeLockedApps, now, ticks, result, awardReturned,
                 grants, serialBalance, req, snap, ret, calls, started>>

\* The commit goes through.
TxnCommit(p) ==
  LET c == req[p]
      out == Out(p)
  IN /\ pc[p] = "commit"
     /\ ~Conflict(p)
     /\ Settle(snap[p].doc, out)
     /\ grants' = GrantsAfter(c, snap[p].doc, out)
     /\ snap' = Forget(p, Outdate(p, out.writes))
     /\ started' = Disturb(p, c, snap[p].doc, out)
     /\ Holds(p, After(c, out))
     /\ pc' = [pc EXCEPT ![p] = AfterCommit(c, out)]
     /\ UNCHANGED <<markers, nativeLockedApps, now, ticks, result,
                    awardReturned, req, calls>>

\* markWindowProcessed, and awardTokensForWindow returns.
MarkWindow(p) ==
  LET c == req[p]
      windowId == generateWindowId(uid, c.window[1], c.window[2])
  IN /\ pc[p] = "mark"
     /\ markWindowProcessed(windowId)
     /\ awardReturned' = awardReturned \cup {windowId}
     /\ Return(p)
     /\ UNCHANGED <<user, transactions, investments, nativeLockedApps, now,
                    ticks, result, grants, serialBalance, req, snap, ret,
                    calls, started>>

\* After the commit: the user document is read again for lockedApps.
Reread(p) ==
  /\ pc[p] = "reread"
  /\ snap' = [snap EXCEPT ![p] = [doc |-> user, at |-> now, stale |-> FALSE]]
  /\ pc' = [pc EXCEPT ![p] = "push"]
  /\ UNCHANGED <<store, nativeLockedApps, now, ticks, result, awardReturned,
                 grants, serialBalance, req, ret, calls, started>>

\* updateLockedApps(lockedApps), and the call returns.
Push(p) ==
  /\ pc[p] = "push"
  /\ nativeLockedApps' = Range(snap[p].doc.lockedApps)
  /\ Return(p)
  /\ snap' = Forget(p, snap)
  /\ UNCHANGED <<store, now, ticks, result, awardReturned, grants,
                 serialBalance, req, ret, calls, started>>

\* relockExpiredSessions: userRef.get(), outside any transaction.
RelockRead(p) ==
  LET w == relockUpdate(user, now) IN
  /\ pc[p] = "read"
  /\ Holds(p, Result("return"))
  /\ IF w.writes
     THEN /\ snap' = [snap EXCEPT
                        ![p] = [doc |-> user, at |-> now, stale |-> FALSE]]
          /\ pc' = [pc EXCEPT ![p] = "write"]
     ELSE /\ Return(p)
          /\ UNCHANGED snap
  /\ UNCHANGED <<store, nativeLockedApps, now, ticks, result, awardReturned,
                 grants, serialBalance, req, calls, started>>

\* relockExpiredSessions: userRef.update() of the two fields it computed
\* from what it read, whatever the document holds by now.
RelockWrite(p) ==
  LET w == relockUpdate(snap[p].doc, snap[p].at) IN
  /\ pc[p] = "write"
  /\ user' = [user EXCEPT !.lockedApps = w.lockedApps,
                          !.unlockSessions = w.unlockSessions]
  /\ snap' = [Outdate(p, TRUE) EXCEPT ![p].doc.lockedApps = w.lockedApps]
  /\ pc' = [pc EXCEPT ![p] = "push"]
  /\ UNCHANGED <<transactions, investments, markers,
                 nativeLockedApps, now, ticks, result, awardReturned, grants,
                 serialBalance, req, ret, calls, started>>

\* Time passes while calls are under way: long enough for a session to expire.
Expire == Pass(unlockDurationMs, MaxConcTicks)

NextConc ==
  \/ \E p \in Procs, c \in ConcCalls : Invoke(p, c)
  \/ \E p \in Procs : TxnGet(p)
  \/ \E p \in Procs : TxnRetry(p)
  \/ \E p \in Procs : TxnCommit(p)
  \/ \E p \in Procs : MarkWindow(p)
  \/ \E p \in Procs : Reread(p)
  \/ \E p \in Procs : Push(p)

SpecConc == Init /\ [][NextConc]_vars

(***************************************************************************)
(* SpecReconcile: the user's calls (caller 1) against the reconcile        *)
(* trigger, a timer or a foreground event (caller 2).                      *)
(***************************************************************************)
GateCalls ==
  {[Call("purchaseTokens") EXCEPT
      !.tokenAmount = 40, !.phoneNumber = "254712345678"]}
  \cup {[Call("unlockApp") EXCEPT !.packageName = pkg] : pkg \in Packages}

NextReconcile ==
  \/ Expire
  \/ \E c \in GateCalls : Start(1, c, MaxGateCalls)
  \/ Start(2, Call("relockExpiredSessions"), MaxGateCalls)
  \/ \E p \in Procs : TxnGet(p)
  \/ \E p \in Procs : TxnRetry(p)
  \/ \E p \in Procs : TxnCommit(p)
  \/ \E p \in Procs : Reread(p)
  \/ \E p \in Procs : Push(p)
  \/ \E p \in Procs : RelockRead(p)
  \/ \E p \in Procs : RelockWrite(p)

SpecReconcile == Init /\ [][NextReconcile]_vars

(***************************************************************************)
(* SpecNoUser: every operation, called for a uid that has no user record.  *)
(***************************************************************************)
InitNoUser == Init /\ ~user.exists

NextNoUser == Next \/ NextGate

SpecNoUser == InitNoUser /\ [][NextNoUser]_vars

(***************************************************************************)
(* SpecSync: the unlock session manager with a native module that may      *)
(* reject a push (BlockerModule.updateLockedApps rejects its promise when   *)
(* the native side throws).                                                *)
(***************************************************************************)
SyncCall(op, packageName) == [Call(op) EXCEPT !.packageName = packageName]

NextSync ==
  \/ Pass(unlockDurationMs, MaxSyncTicks)
  \/ \E a \in GatePurchases : purchaseTokens(a, "254712345678", TRUE)
  \/ \E pkg \in Packages, pushOk \in BOOLEAN :
       Run(SyncCall("unlockApp", pkg), pushOk)
  \/ \E pkg \in Packages, pushOk \in BOOLEAN :
       Run(SyncCall("lockApp", pkg), pushOk)
  \/ \E pkg \in Packages, pushOk \in BOOLEAN :
       Run(SyncCall("unlockAppPermanently", pkg), pushOk)
  \/ \E pushOk \in BOOLEAN : reconcile(TRUE, pushOk)

SpecSync == Init /\ [][NextSync]_vars

(***************************************************************************)
(* SpecLookup: reward credits with a marker store whose lookup may throw   *)
(* (the get of processedWindows/{id} rejects).                             *)
(***************************************************************************)
NextLookup ==
  \/ \E w \in Windows, m \in MeasuredMinutes, lookupOk \in BOOLEAN :
       award(w, m, FALSE, lookupOk)
  \/ \E w \in Windows, m \in ManualMinutes, lookupOk \in BOOLEAN :
       award(w, m, TRUE, lookupOk)

SpecLookup == Init /\ [][NextLookup]_vars

(***************************************************************************)
(* SpecCleanup: reward credits and the housekeeping of the markers, for    *)
(* this user and for another one whose uid starts with this user's.        *)
(* The processedWindows collection is shared by all users; of the other    *)
(* user only the markers are kept, the rest of that user's record lies     *)
(* under users/{otherUid}, which no call for uid names.                    *)
(*                                                                         *)
(* The clock of this specification counts days: the thirty days of the     *)
(* retention horizon, in milliseconds, are beyond TLC's integers.          *)
(***************************************************************************)
otherUid == "user1234"

\* 30 * 24 * 60 * 60 * 1000 ms
thirtyDays == 30

\* doc.id.startsWith(u)
startsWith(id, u) == Len(id) >= Len(u) /\ SubSeq(id, 1, Len(u)) = u

cleanupOldWindows(u) ==
  LET thirtyDaysAgo == now - thirtyDays
      snapshot == {id \in processedWindows : processedAt[id] < thirtyDaysAgo}
      deleted == {id \in snapshot : startsWith(id, u)}
  IN /\ processedWindows' = processedWindows \ deleted
     /\ processedAt' = [id \in processedWindows' |-> processedAt[id]]
     /\ result' = [Result("return") EXCEPT !.op = "cleanupOldWindows"]
     /\ UNCHANGED <<user, transactions, investments, nativeLockedApps, now,
                    ticks, awardReturned, grants, serialBalance, concVars>>

\* awardTokensForWindow(otherUid, ..), as far as the shared collection
\* goes: it writes the marker of the other user's window.
awardOther(window) ==
  /\ ~isWindowProcessed(generateWindowId(otherUid, window[1], window[2]))
  /\ markWindowProcessed(generateWindowId(otherUid, window[1], window[2]))
  /\ UNCHANGED <<user, transactions, investments, nativeLockedApps, now,
                 ticks, result, awardReturned, grants, serialBalance,
                 concVars>>

NextCleanup ==
  \/ \E d \in {thirtyDays, thirtyDays + 1} : Pass(d, MaxCleanupTicks)
  \/ \E w \in Windows, m \in MeasuredMinutes : awardTokensForWindow(w, m, FALSE)
  \/ \E w \in Windows : awardOther(w)
  \/ \E u \in {uid, otherUid} : cleanupOldWindows(u)

SpecCleanup == Init /\ [][NextCleanup]_vars

(***************************************************************************)
(* SpecWriteFault: unlock sessions and the reconcile pass, with a store    *)
(* that may reject the pass's userRef.update.                              *)
(***************************************************************************)
NextWriteFault ==
  \/ \E d \in TickDeltas : Tick(d)
  \/ \E a \in GatePurchases : purchaseTokens(a, "254712345678", TRUE)
  \/ \E pkg \in Packages : unlockApp(pkg)
  \/ \E pkg \in Packages : lockApp(pkg)
  \/ \E writeOk \in BOOLEAN : reconcile(writeOk, TRUE)

SpecWriteFault == Init /\ [][NextWriteFault]_vars

(***************************************************************************)
(* SpecOverlay: the unlock session manager with the block overlay, which   *)
(* the enforcement service shows for a package of the set pushed to it.    *)
(***************************************************************************)
\* The JavaScript listeners subscribed to the event eventName of the
\* device event emitter: no source file subscribes one.
Listeners(eventName) == {}

\* The overlay's unlock button, shown for a package the native set holds:
\* BlockerModule.sendUnlockRequest(packageName) emits onUnlockRequest to
\* JavaScript, runs the listeners subscribed to it, and the overlay closes.
sendUnlockRequest(packageName) ==
  /\ packageName \in nativeLockedApps
  /\ Listeners("onUnlockRequest") = {}
  /\ result' = Returned([Call("sendUnlockRequest") EXCEPT
                           !.packageName = packageName], Result("return"))
  /\ UNCHANGED <<store, nativeLockedApps, now, ticks, awardReturned, grants,
                 serialBalance, concVars>>

NextOverlay ==
  \/ NextGate
  \/ \E pkg \in Packages : sendUnlockRequest(pkg)

SpecOverlay == Init /\ [][NextOverlay]_vars

(***************************************************************************)
(* SpecUsage: the ledger with awardTokensForWindow measuring the minutes   *)
(* itself, through a usage module that answers or fails.                   *)
(***************************************************************************)
\* The per-app minutes the usage module holds for a window.
UsageStats == {<<45>>, <<60, 60>>}

\* UsageService.getUsageStats: what the native module answers, or [] when
\* it rejects (no permission, an exception) or the platform has none.
getUsageStats(stats, fetchOk) == IF fetchOk THEN stats ELSE <<>>

RECURSIVE getTotalMinutes(_)
\* stats.reduce((total, stat) => total + stat.minutes, 0)
getTotalMinutes(stats) ==
  IF stats = <<>> THEN 0 ELSE Head(stats) + getTotalMinutes(Tail(stats))

\* awardTokensForWindow(uid, startMillis, endMillis), with no manualMinutes.
awardMeasured(window, stats, fetchOk) ==
  award(window, getTotalMinutes(getUsageStats(stats, fetchOk)), FALSE, TRUE)

NextUsage ==
  \/ Next
  \/ \E w \in Windows, stats \in UsageStats, fetchOk \in BOOLEAN :
       awardMeasured(w, stats, fetchOk)

SpecUsage == Init /\ [][NextUsage]_vars

(***************************************************************************)
(* SpecHourly: awardHourlyTokens as the background fetch runs it, every    *)
(* fetch interval at the earliest, on a device in use since time 0.        *)
(***************************************************************************)
\* minimumFetchInterval: 15 minutes
fetchIntervalMs == 15 * 60 * 1000

oneHourMs == 60 * 60 * 1000

\* What the usage module answers for a window: the minutes of the window
\* that lie after time 0, the device being in use ever since.
measuredStats(startMillis, endMillis) ==
  <<(endMillis - (IF startMillis < 0 THEN 0 ELSE startMillis)) \div 60000>>

\* awardHourlyTokens(uid), and the background task's inline copy of it:
\* the window is the hour that ends now.
awardHourlyTokens ==
  \E endMillis \in {now} :
    \E startMillis \in {endMillis - oneHourMs} :
      awardMeasured(<<startMillis, endMillis>>,
                    measuredStats(startMillis, endMillis), TRUE)

NextHourly ==
  \/ Pass(fetchIntervalMs, MaxFetches)
  \/ awardHourlyTokens

SpecHourly == Init /\ [][NextHourly]_vars

(***************************************************************************)
(* Properties.                                                             *)
(***************************************************************************)
AwardInputs ==
  (Windows \X MeasuredMinutes \X {FALSE}) \cup (Windows \X ManualMinutes \X {TRUE})

\* The marker id of each window the calls name.
WindowId == [w \in Windows |-> generateWindowId(uid, w[1], w[2])]

\* The calls of p and q were under way at the same time.
Overlap(p, q) == q \in started[p].with \/ p \in started[q].with

\* C1: after any sequence of reward credits, purchases, unlocks, investments
\* and withdrawals, the stored tokensBalance is never below zero.
C1_NonNegativeBalance == user.tokensBalance >= 0

\* C2: the amounts of all Transaction Entries written for the user add up to
\* the current tokensBalance minus the initial balance 0.
C2_Conservation == SumAmounts(transactions) = user.tokensBalance - 0

C4_AtMostOneReward ==
  \A w \in Windows :
    Cardinality({i \in DOMAIN transactions :
                   transactions[i].type = "reward"
                   /\ transactions[i].window = w}) <= 1

\* C5: two unlockApp calls for different packages, under way at the same time
\* with no other operation changing the balance meanwhile, and both started
\* at a balance that covers one unlock but not two, end with
\* one success and one insufficient-tokens failure, and the balance is the
\* starting balance less one unlock cost.
ConcurrentUnlocks(p, q) ==
  /\ p # q
  /\ pc[p] = "idle" /\ pc[q] = "idle"
  /\ req[p].op = "unlockApp" /\ req[q].op = "unlockApp"
  /\ req[p].packageName # req[q].packageName
  /\ Overlap(p, q)
  /\ started[p].alone /\ started[q].alone
  /\ started[p].balance = started[q].balance
  /\ started[p].balance >= UNLOCK_COST_TOKENS
  /\ started[p].balance < 2 * UNLOCK_COST_TOKENS

C5_ConcurrentSpends ==
  \A p, q \in Procs :
    ConcurrentUnlocks(p, q) =>
      /\ ret[p].success # ret[q].success
      /\ \A r \in {p, q} :
           ~ret[r].success => ret[r].message = "Insufficient tokens"
      /\ user.tokensBalance = started[p].balance - UNLOCK_COST_TOKENS

C5_Witness == \E p, q \in Procs : ConcurrentUnlocks(p, q)

\* C6: every commit is computed from the balance stored when it commits (no
\* two commits from the same before-balance), so the stored balance is the
\* committed changes applied one after another in commit order.
C6_NoLostUpdate ==
  /\ [](user.tokensBalance = serialBalance)
  /\ [][\A p \in Procs :
          TxnCommit(p) => snap[p].doc.tokensBalance = user.tokensBalance]_vars

\* A withdrawal is about to commit on a balance that a purchase, committed
\* since the withdrawal read it, has changed.
C6_Witness ==
  \E p, q \in Procs :
    /\ pc[p] = "commit" /\ req[p].op = "withdrawTokens"
    /\ pc[q] = "idle" /\ req[q].op = "purchaseTokens" /\ ret[q].success
    /\ snap[p].doc.tokensBalance # user.tokensBalance
    /\ Len(transactions) >= 2

\* C7: a relockExpiredSessions call that completes at or after the expiry of
\* a session paid for on a locked package (not unlocked permanently since,
\* and with no other session of the package still active) leaves the package
\* in lockedApps.
C7_GrantsReconcile ==
  [][relockExpiredSessions =>
       \A g \in grants :
         (/\ g.expiresAt <= now
          /\ \A i \in DOMAIN user'.unlockSessions :
               user'.unlockSessions[i].packageName = g.packageName
               => user'.unlockSessions[i].expiresAt <= now)
         => Includes(user'.lockedApps, g.packageName)]_vars

\* C8: unlockApp called with tokensBalance < UNLOCK_COST_TOKENS returns
\* success=false with newBalance the unchanged balance, and leaves the user
\* record and the transaction log as they were.
C8_UnlockExclusivity ==
  [][\A pkg \in Packages :
       (/\ unlockApp(pkg)
        /\ user.exists
        /\ user.tokensBalance < UNLOCK_COST_TOKENS)
       => /\ result'.success = FALSE
          /\ result'.newBalance = user.tokensBalance
          /\ user' = user
          /\ transactions' = transactions]_vars

\* unlockApp has just failed for want of tokens, on a balance that is not 0.
C8_Witness ==
  /\ result.op = "unlockApp"
  /\ result.success = FALSE
  /\ result.message = "Insufficient tokens"
  /\ result.newBalance = user.tokensBalance
  /\ user.tokensBalance > 0 /\ user.tokensBalance < UNLOCK_COST_TOKENS
  /\ user.lockedApps # <<>>

\* C9: unlockApp(p) called at time now with tokensBalance = b >=
\* UNLOCK_COST_TOKENS commits balance b - UNLOCK_COST_TOKENS, removes p (and
\* nothing else) from lockedApps, adds the session {p, now, now +
\* UNLOCK_DURATION_MINUTES*60000} and appends exactly one unlock entry with
\* amount -UNLOCK_COST_TOKENS and that balance.
C9_UnlockEffect ==
  [][\A pkg \in Packages :
       (/\ unlockApp(pkg)
        /\ user.exists
        /\ user.tokensBalance >= UNLOCK_COST_TOKENS)
       => LET b == user.tokensBalance
              e == transactions'[Len(transactions')]
          IN /\ user'.tokensBalance = b - UNLOCK_COST_TOKENS
             /\ ~Includes(user'.lockedApps, pkg)
             /\ user'.lockedApps =
                  SelectSeq(user.lockedApps, LAMBDA other : other # pkg)
             /\ [packageName |-> pkg, unlockedAt |-> now,
                 expiresAt |-> now + UNLOCK_DURATION_MINUTES * 60000]
                  \in Range(user'.unlockSessions)
             /\ Len(transactions') = Len(transactions) + 1
             /\ SubSeq(transactions', 1, Len(transactions)) = transactions
             /\ e.type = "unlock"
             /\ e.amount = -UNLOCK_COST_TOKENS
             /\ e.balance = b - UNLOCK_COST_TOKENS
             /\ result'.success /\ result'.newBalance = b - UNLOCK_COST_TOKENS]_vars

\* unlockApp has just succeeded on a locked package, another one staying
\* locked.
C9_Witness ==
  /\ result.op = "unlockApp"
  /\ result.success
  /\ transactions # <<>>
  /\ transactions[Len(transactions)].type = "unlock"
  /\ user.lockedApps # <<>>
  /\ \E g \in grants :
       /\ g.packageName = transactions[Len(transactions)].appPackage
       /\ g.expiresAt = now + unlockDurationMs

\* C10: relockExpiredSessions run at time now with a session of expiresAt <=
\* now leaves lockedApps the duplicate-free union of the old lockedApps and
\* the packages of the sessions with expiresAt <= now, leaves unlockSessions
\* the old sessions with expiresAt > now in order, and leaves the balance and
\* the log alone.
C10_ReconcileEffect ==
  [][(/\ relockExpiredSessions
      /\ user.exists
      /\ \E i \in DOMAIN user.unlockSessions :
           user.unlockSessions[i].expiresAt <= now)
     => /\ Range(user'.lockedApps) =
             Range(user.lockedApps) \cup
               {user.unlockSessions[i].packageName :
                  i \in {j \in DOMAIN user.unlockSessions :
                           user.unlockSessions[j].expiresAt <= now}}
        /\ Cardinality(Range(user'.lockedApps)) = Len(user'.lockedApps)
        /\ user'.unlockSessions =
             SelectSeq(user.unlockSessions, LAMBDA s : s.expiresAt > now)
        /\ user'.tokensBalance = user.tokensBalance
        /\ transactions' = transactions]_vars

\* relockExpiredSessions has just re-locked a package whose session expired
\* at exactly this time, another session staying active.
C10_Witness ==
  /\ result.op = "relockExpiredSessions"
  /\ result.relocked # <<>>
  /\ \E g \in grants :
       /\ g.expiresAt = now
       /\ Includes(result.relocked, g.packageName)
       /\ Includes(user.lockedApps, g.packageName)
  /\ user.unlockSessions # <<>>
  /\ \A i \in DOMAIN user.unlockSessions : user.unlockSessions[i].expiresAt > now

\* C11: a relockExpiredSessions call interleaved with a successful unlockApp
\* for a package other than those of the sessions it read loses nothing the
\* unlock committed: its write keeps every such stored session that is still
\* active and does not put the package of that session back in lockedApps.
C11_ReconcileKeepsPaidSessions ==
  [][\A p \in Procs :
       RelockWrite(p) =>
         \A i \in DOMAIN user.unlockSessions :
           LET s == user.unlockSessions[i] IN
           (/\ s.expiresAt > now
            /\ \A j \in DOMAIN snap[p].doc.unlockSessions :
                 snap[p].doc.unlockSessions[j].packageName # s.packageName)
           => /\ s \in Range(user'.unlockSessions)
             /\ ~Includes(user'.lockedApps, s.packageName)]_vars

\* The call of p has succeeded: success=true, or an award returned normally.
Succeeded(r) == r.kind = "return" /\ (r.success \/ r.op = "awardTokensForWindow")

C13_BalanceSnapshot ==
  [][\A i \in DOMAIN transactions' :
       i > Len(transactions)
       => transactions'[i].balance = user'.tokensBalance]_vars

\* The log holds three entries of three operations, one of them an
\* externally funded investment and one an unlock started while the other
\* caller's call was under way.
C13_Witness ==
  /\ Len(transactions) = 3
  /\ Cardinality({transactions[i].type : i \in DOMAIN transactions}) = 3
  /\ \E i \in DOMAIN transactions :
       transactions[i].type = "investment" /\ transactions[i].amount > 0
  /\ transactions[3].balance = user.tokensBalance
  /\ transactions[1].balance # transactions[3].balance
  /\ \E p \in Procs : started[p].with # {}

\* C14: withdrawTokens with amount > tokensBalance, and investInMMF without a
\* phone number with tokenAmount > tokensBalance, return success=false and
\* leave tokensBalance, mmfPreference, the investment positions and the
\* transaction log as they were.
C14_InsufficientDebitRejected ==
  [][/\ \A a \in WithdrawAmounts, ph \in PhoneNumbers :
          (/\ a > user.tokensBalance
           /\ result'.op = "withdrawTokens"
           /\ withdrawTokens(a, ph))
          => /\ result'.success = FALSE
             /\ user' = user
             /\ investments' = investments
             /\ transactions' = transactions
     /\ \A f \in Funds, a \in InvestAmounts, u \in UnitPrices,
           ok \in BOOLEAN :
          (/\ a > user.tokensBalance
           /\ result'.op = "investInMMF"
           /\ investInMMF(f, a, u, "", ok))
          => /\ result'.success = FALSE
             /\ user' = user
             /\ investments' = investments
             /\ transactions' = transactions]_vars

\* A withdrawal of more than a balance that is not 0 has just been refused.
C14_Witness ==
  /\ result.op = "withdrawTokens"
  /\ result.success = FALSE
  /\ result.message = "Insufficient balance"
  /\ user.exists
  /\ user.tokensBalance > 0
  /\ user.tokensBalance < 20
  /\ transactions # <<>>

\* The operations that mutate the ledger or the lock set.
MutatingOps ==
  {"purchaseTokens", "investInMMF", "withdrawTokens", "unlockApp", "lockApp",
   "unlockAppPermanently", "lockMultipleApps",
   "unlockMultipleAppsPermanently"}

\* C15: called for a uid with no user record, every mutating operation fails
\* (throws or returns success=false), no user record is created, no
\* Transaction Entry or Investment Position is appended, and a reward
\* credit with a positive award (on a window with no marker) throws and
\* writes no idempotency marker.
C15_UserNotFound ==
  [][/\ ~user'.exists /\ user' = user
     /\ transactions' = <<>> /\ investments' = <<>>
     /\ result'.op \in MutatingOps
        => \/ result'.kind = "throw"
           \/ result'.kind = "return" /\ result'.success = FALSE
     /\ \A in \in AwardInputs :
          (/\ in[2] >= 60
           /\ WindowId[in[1]] \notin processedWindows
           /\ awardTokensForWindow(in[1], in[2], in[3]))
          => /\ result'.kind = "throw"
             /\ processedWindows' = processedWindows]_vars

\* An award with a positive number of tokens has just thrown "User not
\* found", and no marker is written.
C15_Witness ==
  /\ ~user.exists
  /\ result.op = "awardTokensForWindow"
  /\ result.kind = "throw"
  /\ result.message = "User not found"
  /\ processedWindows = {}

\* The whole hours in m minutes (m >= 0), by their defining inequality.
WholeHours(m) == CHOOSE h \in 0..m : 60 * h <= m /\ m < 60 * (h + 1)

\* Minutes around the hour marks, and the formula on each of them.
BoundaryMinutes == {0, 1, 59, 60, 61, 119, 120, 121, 179, 180}

FormulaOnBoundaries ==
  \A m \in BoundaryMinutes :
    calculateTokens(m) = WholeHours(m) * TOKENS_PER_HOUR

\* C16: for every non-negative totalMinutes m, measured or manual, on an
\* unprocessed window, awardTokensForWindow returns tokensAwarded =
\* floor(m / 60) * TOKENS_PER_HOUR and raises tokensBalance by exactly that;
\* when that is 0 the balance and the log are untouched and the marker of
\* the window is still written.
C16_RewardFormula ==
  [][/\ FormulaOnBoundaries
     /\ \A in \in AwardInputs :
       LET windowId == WindowId[in[1]]
           expected == WholeHours(in[2]) * TOKENS_PER_HOUR
       IN (/\ in[2] >= 0
           /\ windowId \notin processedWindows
           /\ result'.op = "awardTokensForWindow"
           /\ awardTokensForWindow(in[1], in[2], in[3]))
          => IF expected = 0
             THEN /\ result'.kind = "return"
                  /\ result'.tokensAwarded = 0
                  /\ result'.totalMinutes = in[2]
                  /\ user' = user
                  /\ transactions' = transactions
                  /\ windowId \in processedWindows'
             ELSE user.exists
                  => /\ result'.kind = "return"
                     /\ result'.tokensAwarded = expected
                     /\ result'.totalMinutes = in[2]
                     /\ user'.tokensBalance = user.tokensBalance + expected
                     /\ windowId \in processedWindows']_vars

\* Both cases have happened: 120 minutes of one window were paid 20 tokens,
\* and 45 minutes of the other have just been paid none and marked.
C16_Witness ==
  /\ result.op = "awardTokensForWindow"
  /\ result.kind = "return"
  /\ result.tokensAwarded = 0
  /\ result.totalMinutes = 45
  /\ Cardinality(processedWindows) = 2
  /\ user.tokensBalance = 2 * TOKENS_PER_HOUR
  /\ Len(transactions) = 1
  /\ transactions[1].type = "reward"
  /\ transactions[1].amount = 2 * TOKENS_PER_HOUR
  /\ transactions[1].minutes = 120

\* C17: a successful investInMMF without a phone number, with a > 0,
\* price > 0 and tokensBalance >= a, lowers tokensBalance by exactly a,
\* appends exactly one Transaction Entry of type investment with amount -a,
\* and appends exactly one Investment Position with mmfId = fund,
\* amount = a and units = a / price.
C17_BalanceFundedInvestment ==
  [][\A f \in Funds, a \in InvestAmounts, u \in UnitPrices, ok \in BOOLEAN :
       (/\ a > 0 /\ u > 0
        /\ user.exists
        /\ user.tokensBalance >= a
        /\ result'.op = "investInMMF"
        /\ investInMMF(f, a, u, "", ok))
       => /\ result'.kind = "return"
          /\ result'.success
          /\ user'.tokensBalance = user.tokensBalance - a
          /\ Len(transactions') = Len(transactions) + 1
          /\ SubSeq(transactions', 1, Len(transactions)) = transactions
          /\ LET e == transactions'[Len(transactions')] IN
             /\ e.type = "investment"
             /\ e.amount = -a
          /\ Len(investments') = Len(investments) + 1
          /\ SubSeq(investments', 1, Len(investments)) = investments
          /\ LET pos == investments'[Len(investments')] IN
             /\ pos.mmfId = f
             /\ pos.amount = a
             /\ pos.units[2] # 0
             /\ pos.units[1] * u = a * pos.units[2]]_vars

\* 20 tokens of a balance of 40 have just been invested at a price of 10:
\* 20 are left, and the position holds 2 units.
C17_Witness ==
  /\ result.op = "investInMMF"
  /\ result.success
  /\ user.tokensBalance = 20
  /\ Len(investments) = 1
  /\ investments[1].amount = 20
  /\ investments[1].units = <<20, 10>>
  /\ Len(transactions) = 2
  /\ transactions[1].type = "purchase"
  /\ transactions[2].type = "investment"
  /\ transactions[2].amount = -20
  /\ transactions[2].phoneNumber = ""

\* C18: once unlockAppPermanently(uid, p) has committed, p does not become
\* a member of lockedApps again through any operation other than an explicit
\* lock naming p. Stated of the reconcile pass that follows the permanent
\* unlock with nothing but the passing of time in between: it does not
\* re-add p.
C18_UngovernedIsTerminal ==
  [][(/\ result.op = "unlockAppPermanently"
      /\ result.kind = "return"
      /\ ~Includes(user.lockedApps, result.packageName)
      /\ relockExpiredSessions)
     => ~Includes(user'.lockedApps, result.packageName)]_vars

\* C19: if the enforcement push fails after unlockApp's transaction has
\* committed, nothing is rolled back: the debit, the new session, the
\* removal of the package from lockedApps and the unlock Transaction Entry
\* all remain in the stored state.
C19_SpendIsFinal ==
  [][\A pkg \in Packages :
       (/\ user.exists
        /\ user.tokensBalance >= UNLOCK_COST_TOKENS
        /\ Run(SyncCall("unlockApp", pkg), FALSE))
       => /\ result'.success = FALSE
          /\ nativeLockedApps' = nativeLockedApps
          /\ user'.tokensBalance = user.tokensBalance - UNLOCK_COST_TOKENS
          /\ \E i \in DOMAIN user'.unlockSessions :
               /\ user'.unlockSessions[i].packageName = pkg
               /\ user'.unlockSessions[i].expiresAt = now + unlockDurationMs
          /\ ~Includes(user'.lockedApps, pkg)
          /\ Len(transactions') = Len(transactions) + 1
          /\ SubSeq(transactions', 1, Len(transactions)) = transactions
          /\ LET e == transactions'[Len(transactions')] IN
             /\ e.type = "unlock"
             /\ e.amount = -UNLOCK_COST_TOKENS
             /\ e.appPackage = pkg
             /\ e.balance = user'.tokensBalance]_vars

\* unlockApp on a locked package has just reported a failure, the native
\* module still blocks the package, and the store holds the spend.
C19_Witness ==
  /\ result.op = "unlockApp"
  /\ result.kind = "return"
  /\ result.success = FALSE
  /\ result.message = "Failed to unlock app"
  /\ result.packageName \in nativeLockedApps
  /\ ~Includes(user.lockedApps, result.packageName)
  /\ \E i \in DOMAIN user.unlockSessions :
       user.unlockSessions[i].packageName = result.packageName
  /\ transactions # <<>>
  /\ transactions[Len(transactions)].type = "unlock"
  /\ transactions[Len(transactions)].balance = user.tokensBalance

\* C20: after an enforcement push has failed, leaving the native module's
\* set different from the stored lockedApps, the next relockExpiredSessions
\* call pushes the stored lockedApps, so that afterwards the native module's
\* set equals lockedApps, also when no session has expired at that time.
C20_ReconcileRetriesPush ==
  [][(/\ nativeLockedApps # Range(user.lockedApps)
      /\ relockExpiredSessions)
     => nativeLockedApps' = Range(user'.lockedApps)]_vars

\* C21: for any interleaving of operations that change lockedApps, with
\* every push succeeding, once all operations have finished the set last
\* delivered to the native module equals the stored lockedApps.
C21_MirrorConverges ==
  (\A p \in Procs : pc[p] = "idle")
  => nativeLockedApps = Range(user.lockedApps)

\* C22: awardTokensForWindow attempts the ledger credit for a window only if
\* the marker of that window did not exist when it was read; if the marker
\* exists no credit is attempted, also when the marker lookup itself fails
\* with an error.
C22_CreditOnlyWithoutMarker ==
  [][\A in \in AwardInputs, lookupOk \in BOOLEAN :
       (/\ WindowId[in[1]] \in processedWindows
        /\ award(in[1], in[2], in[3], lookupOk))
       => /\ user' = user
          /\ transactions' = transactions]_vars

\* C23: the marker of a window whose computed award is positive is written
\* only once a reward Transaction Entry for that window (same windowStart
\* and windowEnd) has been committed: never before the ledger transaction
\* commits, and not at all when that transaction fails.
C23_MarkerFollowsCommit ==
  [][\A id \in processedWindows' \ processedWindows :
       \E p \in Procs :
         /\ pc[p] = "mark"
         /\ pc'[p] = "idle"
         /\ id = generateWindowId(uid, req[p].window[1], req[p].window[2])
         /\ calculateTokens(req[p].minutes) > 0
            => \E i \in DOMAIN transactions :
                 /\ transactions[i].type = "reward"
                 /\ transactions[i].window = req[p].window
                 /\ transactions[i].amount = calculateTokens(req[p].minutes)]_vars

\* An award of 20 tokens has returned: its entry is in the log and its
\* marker is written.
C23_Witness ==
  /\ \A p \in Procs : pc[p] = "idle"
  /\ \E p \in Procs :
       /\ ret[p].op = "awardTokensForWindow"
       /\ ret[p].kind = "return"
       /\ ret[p].tokensAwarded = 2 * TOKENS_PER_HOUR
  /\ processedWindows = {WindowId[<<0, 3600000>>]}
  /\ \E i \in DOMAIN transactions :
       /\ transactions[i].type = "reward"
       /\ transactions[i].window = <<0, 3600000>>

\* C24: awardTokensForWindow touches the ledger only when tokensAwarded > 0:
\* for every value of manualMinutes, negative ones included, it never
\* appends a reward Transaction Entry with amount <= 0 and never lowers
\* tokensBalance.
C24_RewardsArePositive ==
  [][\A in \in AwardInputs :
       awardTokensForWindow(in[1], in[2], in[3])
       => /\ user'.tokensBalance >= user.tokensBalance
          /\ \A i \in DOMAIN transactions' :
               (i > Len(transactions) /\ transactions'[i].type = "reward")
               => transactions'[i].amount > 0]_vars

\* C25: in any sequence of awardTokensForWindow and cleanupOldWindows calls,
\* with time passing beyond the retention horizon, a window that has been
\* credited once is never credited a second time.
C25_CleanupKeepsAtMostOnce ==
  [][\A w \in Windows, m \in MeasuredMinutes :
       (/\ \E i \in DOMAIN transactions :
             /\ transactions[i].type = "reward"
             /\ transactions[i].window = w
        /\ awardTokensForWindow(w, m, FALSE))
       => /\ transactions' = transactions
          /\ user'.tokensBalance = user.tokensBalance]_vars

\* The marker ids of the other user's windows.
OtherIds == {generateWindowId(otherUid, w[1], w[2]) : w \in Windows}

\* C26: an operation invoked for one user never changes another user's
\* markers: cleanupOldWindows(uid), with uid a prefix of the other uid,
\* deletes only markers whose key belongs to uid.
C26_CleanupOwnMarkersOnly ==
  [][cleanupOldWindows(uid)
     => \A id \in OtherIds :
          id \in processedWindows => id \in processedWindows']_vars

\* No package with an active session (one with expiresAt > now) is a member
\* of lockedApps.
ActiveSessionNotLocked ==
  \A i \in DOMAIN user.unlockSessions :
    user.unlockSessions[i].expiresAt > now
    => ~Includes(user.lockedApps, user.unlockSessions[i].packageName)

\* C27: in every reachable state, a package with an active session is not a
\* member of lockedApps. Stated of each step: from a state where that is
\* so, every operation leads to one where it is so again; an explicit
\* lockApp or lockMultipleApps, which is the user's own revocation, is the
\* one step left aside.
C27_ActiveSessionStaysUnlocked ==
  [][(/\ ActiveSessionNotLocked
      /\ ~ \E pkg \in Packages : lockApp(pkg)
      /\ ~ \E pkgs \in PackageLists : lockMultipleApps(pkgs))
     => ActiveSessionNotLocked']_vars

\* s holds no element twice.
NoDuplicates(s) == Cardinality(Range(s)) = Len(s)

\* The ledger and the sessions are as they were.
OnlyLockedAppsChanged ==
  /\ user' = [user EXCEPT !.lockedApps = user'.lockedApps]
  /\ transactions' = transactions
  /\ investments' = investments

\* C28: lockApp, unlockAppPermanently, lockMultipleApps and
\* unlockMultipleAppsPermanently leave tokensBalance, unlockSessions, the
\* investment positions and the transaction log unchanged; lockedApps
\* changes by exactly the named packages (added without creating
\* duplicates, or removed), and lockApp on an already-locked package
\* changes nothing.
C28_LockEditsAreFree ==
  [][/\ \A pkg \in Packages :
          /\ (result'.op = "lockApp" /\ lockApp(pkg))
             => /\ OnlyLockedAppsChanged
                /\ user.exists /\ ~Includes(user.lockedApps, pkg)
                   => user'.lockedApps = Append(user.lockedApps, pkg)
                /\ Includes(user.lockedApps, pkg) => user' = user
          /\ (result'.op = "unlockAppPermanently" /\ unlockAppPermanently(pkg))
             => /\ OnlyLockedAppsChanged
                /\ Range(user'.lockedApps) = Range(user.lockedApps) \ {pkg}
                /\ NoDuplicates(user'.lockedApps)
     /\ \A pkgs \in PackageLists :
          /\ (result'.op = "lockMultipleApps" /\ lockMultipleApps(pkgs))
             => /\ OnlyLockedAppsChanged
                /\ user.exists
                   => /\ Range(user'.lockedApps) =
                           Range(user.lockedApps) \cup Range(pkgs)
                      /\ NoDuplicates(user'.lockedApps)
                      /\ SubSeq(user'.lockedApps, 1, Len(user.lockedApps)) =
                           user.lockedApps
          /\ (/\ result'.op = "unlockMultipleAppsPermanently"
              /\ unlockMultipleAppsPermanently(pkgs))
             => /\ OnlyLockedAppsChanged
                /\ Range(user'.lockedApps) =
                     Range(user.lockedApps) \ Range(pkgs)
                /\ NoDuplicates(user'.lockedApps)]_vars

\* A bulk lock naming com.x twice and com.y, with com.y locked before, has
\* just returned: each is locked once, and the session and the balance
\* that an unlock left are as they were.
C28_Witness ==
  /\ result.op = "lockMultipleApps"
  /\ result.kind = "return"
  /\ user.lockedApps = <<"com.y", "com.x">>
  /\ user.tokensBalance = 30
  /\ Len(user.unlockSessions) = 1
  /\ Len(transactions) = 2

\* C29: relockExpiredSessions called when no stored session has
\* expiresAt <= now changes nothing in the user record; and the state it
\* leaves is one on which a second call at the same time changes nothing:
\* no session in it has expired, and the pass computed on it writes nothing.
C29_ReconcileIsRedundantSafe ==
  [][(result'.op = "relockExpiredSessions" /\ relockExpiredSessions)
     => /\ (\A i \in DOMAIN user.unlockSessions :
              user.unlockSessions[i].expiresAt > now)
           => /\ user' = user
              /\ transactions' = transactions
              /\ nativeLockedApps' = nativeLockedApps
        /\ \A i \in DOMAIN user'.unlockSessions :
             user'.unlockSessions[i].expiresAt > now'
        /\ ~relockUpdate(user', now').writes]_vars

\* relockExpiredSessions has just returned without re-locking anything,
\* some time after a session was bought that is still active.
C29_Witness ==
  /\ result.op = "relockExpiredSessions"
  /\ result.relocked = <<>>
  /\ now > 0
  /\ user.unlockSessions # <<>>
  /\ user.lockedApps # <<>>

\* C30: no public operation silently swallows a failed mutation. Stated of
\* the reconcile pass: when the store rejects the update of a pass that has
\* expired sessions to re-lock, the caller gets an exception or a failure
\* result, not a normal return.
C30_ReconcileReportsFailure ==
  [][(/\ result'.op = "relockExpiredSessions"
      /\ user.exists
      /\ \E i \in DOMAIN user.unlockSessions :
           user.unlockSessions[i].expiresAt <= now
      /\ reconcile(FALSE, TRUE))
     => result'.kind = "throw"]_vars

(***************************************************************************)
(* Input validation, payment and the ledger transaction of investInMMF.    *)
(***************************************************************************)
\* C31: investInMMF with tokenAmount <= 0 or unitPrice <= 0 returns
\* success = false with the validation's own message whatever the payment
\* would have answered (simulateStkPush is not reached), and leaves
\* tokensBalance, mmfPreference, the positions and the log as they were.
C31_InvalidInvestmentRejected ==
  [][result'.op = "investInMMF" =>
     \A f \in Funds, a \in InvestAmounts, u \in UnitPrices,
        ph \in InvestPhones, ok \in BOOLEAN :
       (/\ (a <= 0 \/ u <= 0)
        /\ investInMMF(f, a, u, ph, ok))
       => /\ result'.kind = "return"
          /\ result'.success = FALSE
          /\ result'.message =
               IF a <= 0 THEN "Investment amount must be greater than 0"
               ELSE "Invalid unit price"
          /\ user' = user
          /\ investments' = investments
          /\ transactions' = transactions]_vars

\* An investment with a unit price of 0 has just been refused, on a user
\* who holds tokens and has a log.
C31_Witness ==
  /\ result.op = "investInMMF"
  /\ result.success = FALSE
  /\ result.message = "Invalid unit price"
  /\ user.exists
  /\ user.tokensBalance >= 20
  /\ transactions # <<>>
  /\ investments = <<>>

\* C32: the waits on the outside come before the ledger transaction. A
\* purchaseTokens, or an investInMMF with a phone number, whose payment
\* fails returns success = false with the payment's message whatever the
\* user document holds (the transaction, which would refuse a missing user
\* or an insufficient balance, is not opened), and tokensBalance, the
\* positions and the log are unchanged. awardTokensForWindow has the
\* minutes in hand before it opens the transaction: a window of less than
\* an hour returns normally, without a transaction, also for a missing user.
C32_WaitsPrecedeLedger ==
  [][/\ result'.op = "purchaseTokens" =>
          \A a \in PurchaseAmounts, ph \in PhoneNumbers :
            (a > 0 /\ ~InvalidPhone(ph) /\ purchaseTokens(a, ph, FALSE))
            => /\ result'.kind = "return"
               /\ result'.success = FALSE
               /\ result'.message = "Payment failed"
               /\ user' = user
               /\ investments' = investments
               /\ transactions' = transactions
     /\ result'.op = "investInMMF" =>
          \A f \in Funds, a \in InvestAmounts, u \in UnitPrices :
            (a > 0 /\ u > 0 /\ investInMMF(f, a, u, "254712345678", FALSE))
            => /\ result'.kind = "return"
               /\ result'.success = FALSE
               /\ result'.message = "Payment failed"
               /\ user' = user
               /\ investments' = investments
               /\ transactions' = transactions
     /\ result'.op = "awardTokensForWindow" =>
          \A w \in Windows, m \in MeasuredMinutes :
            (/\ calculateTokens(m) = 0
             /\ ~isWindowProcessed(WindowId[w])
             /\ awardTokensForWindow(w, m, FALSE))
            => /\ result'.kind = "return"
               /\ result'.totalMinutes = m
               /\ user' = user
               /\ transactions' = transactions]_vars

\* A purchase whose payment failed has just returned, for a user whose
\* document does not exist.
C32_Witness ==
  /\ result.op = "purchaseTokens"
  /\ result.success = FALSE
  /\ result.message = "Payment failed"
  /\ ~user.exists
  /\ transactions = <<>>

C34_UnlockRequestsHonoured ==
  [][\A pkg \in Packages :
       (/\ result'.op = "sendUnlockRequest"
        /\ sendUnlockRequest(pkg))
       => \E out \in {Update([Call("unlockApp") EXCEPT !.packageName = pkg],
                             user, now, Len(investments) + 1)} :
            IF out.throw = "" /\ out.writes
            THEN /\ user' = out.doc
                 /\ transactions' = transactions \o out.txs
            ELSE /\ user' = user
                 /\ transactions' = transactions]_vars

(***************************************************************************)
(* What unlockApp answers and charges.                                     *)
(***************************************************************************)
\* C35: unlockApp's result matches what was committed, also when the push
\* to the enforcement side throws after the commit: when it returns
\* success = false the user record and the log are as before the call, and
\* when a debit was committed it returns success = true with newBalance the
\* committed balance.
C35_UnlockResultMatchesCommit ==
  [][\A pkg \in Packages, pushOk \in BOOLEAN :
       (/\ result'.op = "unlockApp"
        /\ Run(SyncCall("unlockApp", pkg), pushOk))
       => /\ (result'.kind = "return" /\ ~result'.success)
             => /\ user' = user
                /\ transactions' = transactions
          /\ user'.tokensBalance # user.tokensBalance
             => /\ result'.kind = "return"
                /\ result'.success
                /\ result'.newBalance = user'.tokensBalance]_vars

\* The sessions of package pkg in the record doc that are active at time t.
ActiveSessionsOf(doc, pkg, t) ==
  {i \in DOMAIN doc.unlockSessions :
     /\ doc.unlockSessions[i].packageName = pkg
     /\ doc.unlockSessions[i].expiresAt > t}

\* C36: no double charge for one package. After every step unlockSessions
\* holds at most one session with expiresAt > now per package; and
\* unlockApp(uid, p) called while p has an active session does not debit
\* the balance again.
C36_NoDoubleCharge ==
  [][/\ \A pkg \in Packages :
          Cardinality(ActiveSessionsOf(user', pkg, now')) <= 1
     /\ \A pkg \in Packages :
          (/\ result'.op = "unlockApp"
           /\ ActiveSessionsOf(user, pkg, now) # {}
           /\ unlockApp(pkg))
          => user'.tokensBalance = user.tokensBalance]_vars

(***************************************************************************)
(* Awards measured by the engine itself.                                   *)
(***************************************************************************)
\* C37: when the engagement-data fetch fails during an awardTokensForWindow
\* called without manualMinutes, no marker is written for the window (a
\* later call with the data available can still credit it).
C37_FetchFailureKeepsWindow ==
  [][\A w \in Windows, stats \in UsageStats :
       (/\ result'.op = "awardTokensForWindow"
        /\ WindowId[w] \notin processedWindows
        /\ awardMeasured(w, stats, FALSE))
       => WindowId[w] \notin processedWindows']_vars

\* C38: awardHourlyTokens calls made less than an hour apart do not both
\* credit the same measured minutes: the tokens credited in all never
\* exceed TOKENS_PER_HOUR for each whole hour of distinct measured minutes
\* (here the device is in use from time 0 on, so the distinct minutes
\* measured up to now are at most the minutes gone by).
C38_NoDoubleRewardAcrossWindows ==
  SumAmounts(SelectSeq(transactions, LAMBDA e : e.type = "reward"))
    <= (now \div oneHourMs) * TOKENS_PER_HOUR

(***************************************************************************)
(* Positions and their entries.                                            *)
(***************************************************************************)
\* The entries of type investment, in the order they were written.
InvestmentEntries ==
  SelectSeq(transactions, LAMBDA e : e.type = "investment")

\* Position i and investment entry i belong together.
PositionsPaired ==
  /\ Len(investments) = Len(InvestmentEntries)
  /\ \A i \in DOMAIN investments :
       LET e == InvestmentEntries[i] IN
       /\ investments[i].mmfId = e.mmfId
       /\ investments[i].amount = (IF e.amount < 0 THEN -e.amount ELSE e.amount)

\* C39: the positions and the entries of type investment are in one-to-one
\* correspondence after every step, also with two callers at once (same
\* count, each position's amount the absolute value of its entry's amount);
\* and an investInMMF that ends in failure has written neither.
C39_PositionsPairedWithEntries ==
  [][/\ PositionsPaired'
     /\ \A p \in Procs :
          (/\ req[p].op = "investInMMF"
           /\ pc[p] # "idle"
           /\ pc'[p] = "idle"
           /\ ~ret'[p].success)
          => /\ investments' = investments
             /\ transactions' = transactions]_vars

\* Two positions are held, one paid by phone and one from the balance.
C39_Witness ==
  /\ Len(investments) = 2
  /\ \E i, j \in DOMAIN transactions :
       /\ transactions[i].type = "investment" /\ transactions[i].amount = 20
       /\ transactions[j].type = "investment" /\ transactions[j].amount = -20
====
